---- MODULE Spec2Model ----
(***************************************************************************)
(* A model of nphysics' rigid-body collision detector                      *)
(* (src/detection/bodies_bodies.rs) and of its contact constraint builder  *)
(* (src/resolution/constraint/contact_equation.rs).                        *)
(*                                                                         *)
(* Four specifications share the variables:                                *)
(*   Spec         the broad phase asking BodyBodyDispatcher::is_valid      *)
(*   TrackerSpec  BodiesBodies::update over the tracked pairs              *)
(*   RemoveSpec   BodiesBodies::remove                                     *)
(*   BuilderSpec  fill_second_order_equation and                           *)
(*                reinit_to_first_order_equation                           *)
(***************************************************************************)
EXTENDS Integers, Sequences, FiniteSets, TLC

\* ------------------------------------------------------------------ bounds

\* Number of rigid bodies in the world.
NumBodies == 3
\* Number of Rc clones of each body that may be handed to the dispatcher.
NumClones == 2
\* Largest number of contacts a narrow-phase detector reports for one pair.
MaxColls == 2
\* Number of BodiesBodies::update calls followed.
MaxUpdates == 3
\* Largest number of pairs the broad phase tracks at once.
MaxPairs == 1
\* Largest coordinate of a body's bounding volume.
MaxPos == 2
\* Length of the friction constraints' array.
NumSlots == 3

VARIABLES
    can_move,     \* RigidBody::can_move() of every body
    active,       \* RigidBody::is_active() of every body
    aabb,         \* RigidBody::bounding_volume() of every body: its lower corner
    last_valid,   \* the last is_valid call: its arguments and its result
    tracked,      \* the broad phase's pairs, each with a narrow-phase detector
    num_colls,    \* cd.num_colls() of every tracked pair
    last_update,  \* per pair: the counts read and the will_activate calls of the last update
    wakes,        \* per pair: will_activate calls made for it by all updates so far
    crossings,    \* per pair: zero crossings of its contact count so far
    nupdates,     \* update calls so far
    last_remove,  \* the last remove call: its argument and its will_activate calls
    stage,        \* what the solver did to the contact's constraints so far
    args,         \* the arguments of the fill_second_order_equation call
    restitution_constraint,  \* the contact's normal constraint
    friction_constraints  \* the friction constraints' array

vars == <<can_move, active, aabb, last_valid, tracked, num_colls, last_update,
          wakes, crossings, nupdates, last_remove, stage, args, restitution_constraint,
          friction_constraints>>

worldVars   == <<can_move, active, aabb>>
trackerVars == <<tracked, num_colls, last_update, wakes, crossings, nupdates>>
builderVars == <<stage, args, restitution_constraint, friction_constraints>>

\* ------------------------------------------------------------------ bodies

Bodies == 1 .. NumBodies

\* An Rc<RefCell<RigidBody>>: the body it points to, and which clone it is.
Handles == Bodies \X (1 .. NumClones)

\* borrow::ref_eq on two handles' RefCells: the same body, whichever clones.
ref_eq(a, b) == a[1] = b[1]

NoCall == [op |-> "none"]

\* ------------------------------------------------------------------ dispatcher

\* A dispatcher that only rejects a body paired with itself.
is_valid_any_pair(a, b) == ~ref_eq(a, b)

\* A dispatcher that asks both bodies to move.
is_valid_and(a, b) ==
    IF ref_eq(a, b) THEN FALSE ELSE can_move[a[1]] /\ can_move[b[1]]

\* BodyBodyDispatcher::is_valid
is_valid(a, b) ==
    IF ref_eq(a, b)
    THEN FALSE
    ELSE can_move[a[1]] \/ can_move[b[1]]

\* The broad phase asks the dispatcher whether the pair (a, b) is worth tracking.
IsValid(a, b) ==
    /\ last_valid' = [op |-> "is_valid", a |-> a, b |-> b, ret |-> is_valid(a, b)]
    /\ UNCHANGED <<worldVars, trackerVars, last_remove, builderVars>>

\* ------------------------------------------------------------------ update

Pairs == {p \in Bodies \X Bodies : p[1] # p[2]}

\* An update that reports every change of the count.
UpdateWakes_any_change(ncols, new_ncols, b1, b2) ==
    IF ncols # new_ncols THEN <<b1, b2>> ELSE <<>>

\* The will_activate calls update makes for one pair, in order.
UpdateWakes(ncols, new_ncols, b1, b2) ==
    IF ncols = 0 /\ new_ncols # 0
    THEN <<b1, b2>>
    ELSE IF ncols # 0 /\ new_ncols = 0
         THEN <<b1, b2>>
         ELSE <<>>

\* A zero crossing of a contact count.
Crossed(n, m) == (n = 0) # (m = 0)

\* The broad phase starts tracking a pair the dispatcher accepts; its detector
\* starts without contacts.
Track(a, b) ==
    /\ is_valid(a, b)
    /\ Cardinality(tracked) < MaxPairs
    /\ <<a[1], b[1]>> \notin tracked
    /\ <<b[1], a[1]>> \notin tracked
    /\ tracked' = tracked \cup {<<a[1], b[1]>>}
    /\ UNCHANGED <<worldVars, last_valid, num_colls, last_update, wakes,
                   crossings, nupdates, last_remove, builderVars>>

\* BodiesBodies::update: every tracked pair's detector is re-run (the
\* narrow phase decides the new count) and the zero crossings are reported.
Update ==
    /\ nupdates < MaxUpdates
    /\ tracked # {}
    /\ \E new \in [tracked -> 0 .. MaxColls] :
        /\ num_colls' = [p \in Pairs |-> IF p \in tracked THEN new[p] ELSE num_colls[p]]
        /\ last_update' =
              [p \in Pairs |->
                  IF p \in tracked
                  THEN [ncols |-> num_colls[p], new_ncols |-> new[p],
                        calls |-> UpdateWakes(num_colls[p], new[p], p[1], p[2])]
                  ELSE [ncols |-> 0, new_ncols |-> 0, calls |-> <<>>]]
        /\ wakes' =
              [p \in Pairs |->
                  IF p \in tracked
                  THEN wakes[p] + Len(UpdateWakes(num_colls[p], new[p], p[1], p[2]))
                  ELSE wakes[p]]
        /\ crossings' =
              [p \in Pairs |->
                  IF p \in tracked /\ Crossed(num_colls[p], new[p])
                  THEN crossings[p] + 1
                  ELSE crossings[p]]
    /\ nupdates' = nupdates + 1
    /\ UNCHANGED <<worldVars, last_valid, tracked, last_remove, builderVars>>

\* ------------------------------------------------------------------ remove

\* An AABB: the interval [lo, lo + 1] on one axis.
Intersects(x, y) == x <= y + 1 /\ y <= x + 1

\* BoundingVolumeBroadPhase::interferences_with_bounding_volume
Interferences(bv) == {i \in Bodies : Intersects(aabb[i], bv)}

\* A remove that also wakes the immovable neighbours.
RemoveWakes_no_can_move(o) ==
    IF ~active[o]
    THEN [i \in Bodies |->
            IF i \in Interferences(aabb[o]) /\ i # o /\ ~active[i] THEN 1 ELSE 0]
    ELSE [i \in Bodies |-> 0]

\* The number of will_activate calls remove(o) makes on each body.
RemoveWakes(o) ==
    IF ~active[o]
    THEN [i \in Bodies |->
            IF i \in Interferences(aabb[o]) /\ i # o /\ ~active[i] /\ can_move[i]
            THEN 1 ELSE 0]
    ELSE [i \in Bodies |-> 0]

\* BodiesBodies::remove
Remove(o) ==
    /\ last_remove' = [op |-> "remove", o |-> o, calls |-> RemoveWakes(o)]
    /\ UNCHANGED <<worldVars, last_valid, trackerVars, builderVars>>

\* ------------------------------------------------------------------ numbers

\* The scalar type N, computed exactly: a number is the fraction n / d in lowest
\* terms with d > 0. The values with d = 0 are N's values above every fraction:
\* n = 1 is Bounded::max_value() and n = 2 is what a division by zero gives.
\* The operations are functions, so that an argument is evaluated once.
Numbers == [n : Int, d : Nat]

gcd[a \in Nat, b \in Nat] == IF b = 0 THEN a ELSE gcd[b, a % b]

GCD(a, b) == gcd[a, b]

Abs(x) == IF x < 0 THEN -x ELSE x

rat[n \in Int, d \in Int] ==
    LET g == GCD(Abs(n), Abs(d))
        s == IF d < 0 THEN -1 ELSE 1
    IN  [n |-> (s * n) \div g, d |-> (s * d) \div g]

Rat(n, d) == rat[n, d]

\* na::zero() and na::one()
Zero == [n |-> 0, d |-> 1]
One  == [n |-> 1, d |-> 1]

\* Bounded::max_value()
MaxValue == [n |-> 1, d |-> 0]
\* x / 0 for a positive x
Infinity == [n |-> 2, d |-> 0]

IsFinite(x) == x.d > 0

radd[x \in Numbers, y \in Numbers] == Rat(x.n * y.d + y.n * x.d, x.d * y.d)

rmul[x \in Numbers, y \in Numbers] == Rat(x.n * y.n, x.d * y.d)

rdiv[x \in Numbers, y \in Numbers] ==
    IF y.n = 0
    THEN (IF x.n > 0 THEN Infinity ELSE IF x.n < 0 THEN [n |-> -2, d |-> 0] ELSE [n |-> 0, d |-> 0])
    ELSE Rat(x.n * y.d, x.d * y.n)

rlt[x \in Numbers, y \in Numbers] ==
    IF x.d > 0 /\ y.d > 0 THEN x.n * y.d < y.n * x.d
    ELSE IF x.d > 0 THEN y.n > 0
    ELSE IF y.d > 0 THEN x.n < 0
    ELSE x.n < y.n

RAdd(x, y) == radd[x, y]
RNeg(x)    == [n |-> 0 - x.n, d |-> x.d]
RSub(x, y) == radd[x, RNeg(y)]
RMul(x, y) == rmul[x, y]
RDiv(x, y) == rdiv[x, y]

\* x < y
RLt(x, y) == rlt[x, y]

\* x >= y
RGe(x, y) == rlt[y, x] \/ x = y

\* x.max(&y)
RMax(x, y) == IF rlt[x, y] THEN y ELSE x

\* The vector types LV and AV: three coordinates (the third is 0 for a linear
\* vector in two dimensions, the first two are 0 for an angular one).
Vectors == Numbers \X Numbers \X Numbers

Vec(x, y, z) == <<Rat(x, 1), Rat(y, 1), Rat(z, 1)>>
VZero == <<Zero, Zero, Zero>>

vadd[u \in Vectors, v \in Vectors] ==
    <<RAdd(u[1], v[1]), RAdd(u[2], v[2]), RAdd(u[3], v[3])>>

vscale[u \in Vectors, k \in Numbers] == <<RMul(u[1], k), RMul(u[2], k), RMul(u[3], k)>>

dot[u \in Vectors, v \in Vectors] ==
    RAdd(RAdd(RMul(u[1], v[1]), RMul(u[2], v[2])), RMul(u[3], v[3]))

cross[u \in Vectors, v \in Vectors] ==
    <<RSub(RMul(u[2], v[3]), RMul(u[3], v[2])),
      RSub(RMul(u[3], v[1]), RMul(u[1], v[3])),
      RSub(RMul(u[1], v[2]), RMul(u[2], v[1]))>>

VAdd(u, v)   == vadd[u, v]
VNeg(u)      == vscale[u, [n |-> -1, d |-> 1]]
VSub(u, v)   == vadd[u, VNeg(v)]
VScale(u, k) == vscale[u, k]

\* na::dot
Dot(u, v) == dot[u, v]

\* na::cross
Cross(u, v) == cross[u, v]

\* ------------------------------------------------------------------ correction policy

\* CorrectionMode::Velocity(v), VelocityAndPosition(v, p, t) and
\* VelocityAndPositionThresold(v, p, t)
Velocity(v) == [kind |-> "Velocity", v |-> v]
VelocityAndPosition(v, p, t) == [kind |-> "VelocityAndPosition", v |-> v, p |-> p, t |-> t]
VelocityAndPositionThresold(v, p, t) ==
    [kind |-> "VelocityAndPositionThresold", v |-> v, p |-> p, t |-> t]

\* CorrectionMode::vel_corr_factor
vel_corr_factor(mode) ==
    CASE mode.kind = "Velocity"                    -> mode.v
      [] mode.kind = "VelocityAndPosition"         -> mode.v
      [] mode.kind = "VelocityAndPositionThresold" -> mode.v

\* CorrectionMode::pos_corr_factor
pos_corr_factor(mode) ==
    CASE mode.kind = "VelocityAndPosition"         -> mode.p
      [] mode.kind = "VelocityAndPositionThresold" -> mode.p
      [] mode.kind = "Velocity"                    -> Zero

\* A policy whose VelocityAndPosition mode has no minimum depth.
min_depth_for_pos_corr_unused(mode) ==
    CASE mode.kind = "VelocityAndPosition"         -> RNeg(MaxValue)
      [] mode.kind = "VelocityAndPositionThresold" -> mode.t
      [] mode.kind = "Velocity"                    -> MaxValue

\* CorrectionMode::min_depth_for_pos_corr
min_depth_for_pos_corr(mode) ==
    CASE mode.kind = "VelocityAndPosition"         -> mode.t
      [] mode.kind = "VelocityAndPositionThresold" -> mode.t
      [] mode.kind = "Velocity"                    -> MaxValue

\* CorrectionMode::max_depth_for_vel_corr
max_depth_for_vel_corr(mode) ==
    CASE mode.kind = "VelocityAndPosition"         -> MaxValue
      [] mode.kind = "VelocityAndPositionThresold" -> mode.t
      [] mode.kind = "Velocity"                    -> MaxValue

\* ------------------------------------------------------------------ rigid bodies

\* A linear vector of the world: flat in two dimensions.
LV(x, y, z, dim) == Vec(x, y, IF dim = 3 THEN z ELSE 0)
\* An angular vector of the world: about the third axis in two dimensions.
AV(x, y, z, dim) == IF dim = 3 THEN Vec(x, y, z) ELSE Vec(0, 0, z)

\* What the builder reads of body i through RigidBody's accessors. Body 1 has an
\* infinite mass; the bodies differ in every coefficient.
RigidBody(i, dim) ==
    [ can_move       |-> can_move[i],
      index          |-> i - 1,
      inv_mass       |-> Rat(i - 1, 2),
      inv_inertia    |-> Rat(i - 1, 1),
      center_of_mass |-> LV(i, 1 - i, i - 2, dim),
      lin_vel        |-> LV(2 - i, i, 1, dim),
      ang_vel        |-> AV(1, 0, i - 2, dim),
      lin_acc        |-> LV(0, -10, 0, dim),
      ang_acc        |-> AV(0, 0, 0, dim),
      restitution    |-> Rat(i, 4),
      friction       |-> Rat(i + 2, 5) ]

\* Option<R>
None    == [some |-> FALSE]
Some(b) == [some |-> TRUE, get |-> b]

\* InertiaTensor::apply of the inverse inertia (the same about every axis)
Apply(inv_inertia, v) == VScale(v, inv_inertia)

\* ------------------------------------------------------------------ constraints

\* A VelocityConstraint of the solver's arrays before the builder fills it: the
\* arrays are reused, so it holds whatever an earlier step left.
StaleConstraint ==
    [ normal             |-> VZero,
      weighted_normal1   |-> VZero,
      weighted_normal2   |-> VZero,
      rot_axis1          |-> VZero,
      rot_axis2          |-> VZero,
      weighted_rot_axis1 |-> VZero,
      weighted_rot_axis2 |-> VZero,
      inv_projected_mass |-> Zero,
      impulse            |-> Rat(9, 1),
      lobound            |-> Rat(-1, 1),
      hibound            |-> Rat(1, 1),
      objective          |-> Rat(9, 1),
      id1                |-> -1,
      id2                |-> -1,
      friction_coeff     |-> Rat(9, 1),
      friction_limit_id  |-> 9 ]

\* A reset that does not clamp the depth.
reinit_to_first_order_equation_no_max(dt, coll, constraint, correction) ==
    LET objective ==
            IF RGe(coll.depth, min_depth_for_pos_corr(correction.corr_mode))
            THEN RDiv(RMul(pos_corr_factor(correction.corr_mode), coll.depth), dt)
            ELSE Zero
    IN  [constraint EXCEPT !.objective = objective, !.impulse = Zero]

\* reinit_to_first_order_equation: the constraint it leaves
reinit_to_first_order_equation(dt, coll, constraint, correction) ==
    LET objective ==
            IF RGe(coll.depth, min_depth_for_pos_corr(correction.corr_mode))
            THEN RDiv(RMul(pos_corr_factor(correction.corr_mode), RMax(coll.depth, Zero)), dt)
            ELSE Zero
    IN  [constraint EXCEPT !.objective = objective, !.impulse = Zero]

\* The part of fill_constraint_geometry for one body (which is 1 or 2).
\* The assignments of that part, given the two weighted vectors.
SetGeometry(which, rot_axis, weighted_normal, weighted_rot_axis, c) ==
    LET projected == RAdd(RAdd(c.inv_projected_mass, Dot(c.normal, weighted_normal)),
                          Dot(rot_axis, weighted_rot_axis))
    IN  IF which = 1
        THEN [c EXCEPT !.weighted_normal1   = weighted_normal,
                       !.rot_axis1          = rot_axis,
                       !.weighted_rot_axis1 = weighted_rot_axis,
                       !.inv_projected_mass = projected]
        ELSE [c EXCEPT !.weighted_normal2   = weighted_normal,
                       !.rot_axis2          = rot_axis,
                       !.weighted_rot_axis2 = weighted_rot_axis,
                       !.inv_projected_mass = projected]

GeometryOf(which, rot_axis, rb, c) ==
    IF rb.some
    THEN SetGeometry(which, rot_axis, VScale(c.normal, rb.get.inv_mass),
                     Apply(rb.get.inv_inertia, rot_axis), c)
    ELSE c

\* The last statement of fill_constraint_geometry:
\* inv_projected_mass = 1 / inv_projected_mass
InvertProjectedMass(c) ==
    [c EXCEPT !.inv_projected_mass = RDiv(One, c.inv_projected_mass)]

\* fill_constraint_geometry: the constraint it leaves
fill_constraint_geometry(normal, rot_axis1, rot_axis2, rb1, rb2, constraint) ==
    LET c0 == [constraint EXCEPT !.normal = normal, !.inv_projected_mass = Zero]
        c1 == GeometryOf(1, rot_axis1, rb1, c0)
        c2 == GeometryOf(2, rot_axis2, rb2, c1)
    IN  InvertProjectedMass(c2)

\* relative_velocity
relative_velocity(rb1, rb2, normal, rot_axis1, rot_axis2, dt) ==
    LET dvel1 ==
            IF rb1.some
            THEN RAdd(RSub(Zero, Dot(VAdd(rb1.get.lin_vel, VScale(rb1.get.lin_acc, dt)), normal)),
                      Dot(VAdd(rb1.get.ang_vel, VScale(rb1.get.ang_acc, dt)), rot_axis1))
            ELSE Zero
    IN  IF rb2.some
        THEN RAdd(RAdd(dvel1, Dot(VAdd(rb2.get.lin_vel, VScale(rb2.get.lin_acc, dt)), normal)),
                  Dot(VAdd(rb2.get.ang_vel, VScale(rb2.get.ang_acc, dt)), rot_axis2))
        ELSE dvel1

\* The objective of fill_velocity_constraint before the penetration bias: the
\* relative velocity, amplified by the restitution when the bodies approach
\* faster than rest_eps, negated.
BouncedVelocity(dvel, restitution, correction) ==
    LET amplified == IF RLt(dvel, RNeg(correction.rest_eps))
                     THEN RAdd(dvel, RMul(restitution, dvel))
                     ELSE dvel
    IN  RNeg(amplified)

\* A bias that corrects the velocity of deep contacts in every mode.
PenetrationBias_uncapped(dt, depth, correction) ==
    IF RLt(depth, Zero)
    THEN RDiv(depth, dt)
    ELSE RDiv(RMul(depth, vel_corr_factor(correction.corr_mode)), dt)

\* The penetration bias fill_velocity_constraint adds to the objective.
PenetrationBias(dt, depth, correction) ==
    IF RLt(depth, Zero)
    THEN RDiv(depth, dt)
    ELSE IF RLt(depth, max_depth_for_vel_corr(correction.corr_mode))
         THEN RDiv(RMul(depth, vel_corr_factor(correction.corr_mode)), dt)
         ELSE Zero

\* A warm start that reuses the cached impulse of a separating contact.
WarmStart_keep(depth, initial_impulse) == initial_impulse

\* The warm-start impulse of fill_velocity_constraint.
WarmStart(depth, initial_impulse) ==
    IF RLt(depth, Zero) THEN Zero ELSE initial_impulse

\* A builder that weighs every body, movable or not.
Movable_always(rb) == Some(rb)

\* The body as fill_velocity_constraint hands it on: None when it cannot move.
Movable(rb) == IF rb.can_move THEN Some(rb) ELSE None

\* A builder that leaves the bounds of the constraint as they were.
Bounded_unset(constraint, lobound, hibound) == constraint

\* The constraint bounds fill_velocity_constraint sets.
Bounded(constraint, lobound, hibound) ==
    [constraint EXCEPT !.lobound = lobound, !.hibound = hibound]

\* fill_velocity_constraint after its call of fill_constraint_geometry, which
\* left the constraint geom
fill_velocity_objective(dt, restitution, depth, initial_impulse, lobound, hibound, rb1, rb2, geom, correction) ==
    LET dvel      == relative_velocity(Movable(rb1), Movable(rb2), geom.normal,
                                       geom.rot_axis1, geom.rot_axis2, dt)
        objective == RAdd(BouncedVelocity(dvel, restitution, correction),
                          PenetrationBias(dt, depth, correction))
    IN  Bounded([geom EXCEPT !.id1       = rb1.index,
                             !.id2       = rb2.index,
                             !.objective = objective,
                             !.impulse   = WarmStart(depth, initial_impulse)],
                lobound, hibound)

\* fill_velocity_constraint: the constraint it leaves
fill_velocity_constraint(dt, normal, center, restitution, depth, initial_impulse, lobound, hibound, rb1, rb2, constraint, correction) ==
    LET rot_axis1 == Cross(VSub(center, rb1.center_of_mass), VNeg(normal))
        rot_axis2 == Cross(VSub(center, rb2.center_of_mass), normal)
    IN  fill_velocity_objective(dt, restitution, depth, initial_impulse, lobound, hibound,
            rb1, rb2,
            fill_constraint_geometry(normal, rot_axis1, rot_axis2,
                                     Movable(rb1), Movable(rb2), constraint),
            correction)

\* na::orthonormal_subspace_basis: the axes handed to the closure, in order
orthonormal_subspace_basis(dim, n) ==
    IF dim = 2
    THEN << <<RNeg(n[2]), n[1], Zero>> >>
    ELSE LET a == IF RLt(RMax(n[2], RNeg(n[2])), RMax(n[1], RNeg(n[1])))
                  THEN <<n[3], Zero, RNeg(n[1])>>
                  ELSE <<Zero, RNeg(n[3]), n[2]>>
         IN  << Cross(a, n), a >>

\* A builder that forgets to link the friction constraint to its normal one.
FrictionLink_no_limit(constraint, friction, idr) ==
    [constraint EXCEPT !.friction_coeff = friction]

\* The coupling of a friction constraint to its normal constraint.
FrictionLink(constraint, friction, idr) ==
    [constraint EXCEPT !.friction_coeff = friction, !.friction_limit_id = idr]

\* A builder that hands the contact's restitution and depth to the friction
\* constraints as well.
fill_second_order_equation_biased_friction(dt, coll, rb1, rb2, rconstraint, idr, fconstraints, idf, cache, correction, dim) ==
    LET restitution == RMul(rb1.restitution, rb2.restitution)
        center      == VScale(VAdd(coll.world1, coll.world2), Rat(1, 2))
        friction    == RMul(rb1.friction, rb2.friction)
        axes        == orthonormal_subspace_basis(dim, coll.normal)
        Friction(i) ==
            FrictionLink(
                fill_velocity_constraint(dt, axes[i + 1], center, restitution, coll.depth,
                                         cache[i + 1], Zero, Zero, rb1, rb2,
                                         fconstraints[idf + i], correction),
                friction, idr)
    IN  [ r |-> fill_velocity_constraint(dt, coll.normal, center, restitution, coll.depth,
                                         cache[0], Zero, MaxValue, rb1, rb2, rconstraint,
                                         correction),
          f |-> [k \in DOMAIN fconstraints |->
                    IF k - idf \in 0 .. Len(axes) - 1
                    THEN Friction(k - idf)
                    ELSE fconstraints[k]] ]

\* fill_second_order_equation: the normal constraint r and the friction
\* constraints f it leaves
fill_second_order_equation(dt, coll, rb1, rb2, rconstraint, idr, fconstraints, idf, cache, correction, dim) ==
    LET restitution == RMul(rb1.restitution, rb2.restitution)
        center      == VScale(VAdd(coll.world1, coll.world2), Rat(1, 2))
        friction    == RMul(rb1.friction, rb2.friction)
        axes        == orthonormal_subspace_basis(dim, coll.normal)
        Friction(i) ==
            FrictionLink(
                fill_velocity_constraint(dt, axes[i + 1], center, Zero, Zero, cache[i + 1],
                                         Zero, Zero, rb1, rb2, fconstraints[idf + i],
                                         correction),
                friction, idr)
    IN  [ r |-> fill_velocity_constraint(dt, coll.normal, center, restitution, coll.depth,
                                         cache[0], Zero, MaxValue, rb1, rb2, rconstraint,
                                         correction),
          f |-> [k \in DOMAIN fconstraints |->
                    IF k - idf \in 0 .. Len(axes) - 1
                    THEN Friction(k - idf)
                    ELSE fconstraints[k]] ]

\* ------------------------------------------------------------------ the builder's calls

\* The timesteps, depths and thresholds of the calls followed: 0.016 and 1;
\* -0.01, 0, 0.005, 0.01 and 0.02; -0.01 and 0.01.
Timesteps  == {Rat(2, 125), One}
Depths     == {Rat(-1, 100), Zero, Rat(1, 200), Rat(1, 100), Rat(1, 50)}
Thresholds == {Rat(-1, 100), Rat(1, 100)}

Modes ==
    {Velocity(Rat(1, 5))}
        \cup {VelocityAndPosition(Rat(1, 5), Rat(1, 10), t) : t \in Thresholds}
        \cup {VelocityAndPositionThresold(Rat(1, 5), Rat(1, 10), t) : t \in Thresholds}

\* CorrectionParameters
Corrections == {[corr_mode |-> m, joint_corr |-> Rat(1, 2), rest_eps |-> Rat(1, 10)] : m \in Modes}

\* The unit normals of the contacts followed, in two and in three dimensions.
Normals(dim) ==
    IF dim = 2 THEN {Vec(1, 0, 0), Vec(0, -1, 0)} ELSE {Vec(1, 0, 0), Vec(0, 0, 1)}

\* Contact
Contacts(dim) ==
    {[normal |-> n, world1 |-> LV(1, 0, 1, dim), world2 |-> LV(2, 1, 0, dim), depth |-> d] :
        n \in Normals(dim), d \in Depths}

\* Where the caller puts the contact: its normal slot, its first friction slot
\* and its cached impulses.
Slots ==
    { [idr |-> 0, idf |-> 0,
       cache |-> (0 :> Rat(3, 1) @@ 1 :> Rat(5, 1) @@ 2 :> Rat(7, 1))],
      [idr |-> 1, idf |-> NumSlots - 2,
       cache |-> (0 :> Rat(-2, 1) @@ 1 :> Rat(4, 1) @@ 2 :> Rat(1, 2))] }

\* The constraints after fill_second_order_equation wrote through its two
\* mutable references.
Filled(out) ==
    /\ restitution_constraint' = out.r
    /\ friction_constraints' = out.f

\* The solver builds the constraints of one contact of a pair the broad phase
\* tracks: a pair the dispatcher accepted.
FillSecondOrder ==
    /\ stage = "new"
    /\ \E dim \in {2, 3}, b1 \in Bodies, b2 \in Bodies, dt \in Timesteps, slot \in Slots,
          correction \in Corrections :
        \E coll \in Contacts(dim) :
            /\ is_valid(<<b1, 1>>, <<b2, 1>>)
            /\ Filled(fill_second_order_equation(dt, coll, RigidBody(b1, dim),
                          RigidBody(b2, dim), restitution_constraint, slot.idr,
                          friction_constraints, slot.idf, slot.cache, correction, dim))
            /\ args' = [dim |-> dim, b1 |-> b1, b2 |-> b2, dt |-> dt, coll |-> coll,
                        idr |-> slot.idr, idf |-> slot.idf, cache |-> slot.cache,
                        correction |-> correction]
    /\ stage' = "second_order"
    /\ UNCHANGED <<worldVars, last_valid, trackerVars, last_remove>>

\* The solver's position pass resets the normal constraint of the contact.
ReinitToFirstOrder ==
    /\ stage = "second_order"
    /\ restitution_constraint' = reinit_to_first_order_equation(args.dt, args.coll, restitution_constraint,
                                                     args.correction)
    /\ stage' = "first_order"
    /\ UNCHANGED <<worldVars, last_valid, trackerVars, last_remove, friction_constraints, args>>

\* ------------------------------------------------------------------ specifications

NoPairs == [p \in Pairs |-> 0]

InitWorld ==
    /\ can_move \in [Bodies -> BOOLEAN]
    /\ last_valid = NoCall
    /\ last_remove = NoCall
    /\ tracked = {}
    /\ num_colls = NoPairs
    /\ last_update = [p \in Pairs |-> [ncols |-> 0, new_ncols |-> 0, calls |-> <<>>]]
    /\ wakes = NoPairs
    /\ crossings = NoPairs
    /\ nupdates = 0
    /\ stage = "new"
    /\ args = NoCall
    /\ restitution_constraint = StaleConstraint
    /\ friction_constraints = [k \in 0 .. NumSlots - 1 |-> StaleConstraint]

Init ==
    /\ InitWorld
    /\ active = [i \in Bodies |-> TRUE]
    /\ aabb = [i \in Bodies |-> 0]

Next == \E a \in Handles, b \in Handles : IsValid(a, b)

Spec == Init /\ [][Next]_vars

TrackerNext ==
    \/ \E a \in Bodies, b \in Bodies : Track(<<a, 1>>, <<b, 1>>)
    \/ Update

\* The world of the examples: the first body added is the Static ground, the
\* others are Dynamic.
TrackerInit ==
    /\ InitWorld
    /\ can_move = [i \in Bodies |-> i # 1]
    /\ active = [i \in Bodies |-> TRUE]
    /\ aabb = [i \in Bodies |-> 0]

TrackerSpec == TrackerInit /\ [][TrackerNext]_vars

RemoveInit ==
    /\ InitWorld
    /\ active \in [Bodies -> BOOLEAN]
    /\ aabb \in [Bodies -> 0 .. MaxPos]

RemoveNext == \E o \in Bodies : Remove(o)

RemoveSpec == RemoveInit /\ [][RemoveNext]_vars

BuilderNext ==
    \/ FillSecondOrder
    \/ ReinitToFirstOrder

\* Three worlds: the ground is Static and the rest Dynamic (the examples');
\* only the last body is Dynamic; every body is Dynamic.
BuilderInit ==
    /\ InitWorld
    /\ can_move \in {[i \in Bodies |-> i # 1],
                     [i \in Bodies |-> i = NumBodies],
                     [i \in Bodies |-> TRUE]}
    /\ active = [i \in Bodies |-> TRUE]
    /\ aabb = [i \in Bodies |-> 0]

BuilderSpec == BuilderInit /\ [][BuilderNext]_vars

\* ------------------------------------------------------------------ claims

\* C1: is_valid(a, b) is false exactly when a and b are the same body
\* reference or neither body can move, and it gives the same answer for
\* (b, a).
C1_IsValidContract ==
    last_valid.op = "is_valid" =>
        LET a == last_valid.a
            b == last_valid.b
            same    == a[1] = b[1]
            neither == ~can_move[a[1]] /\ ~can_move[b[1]]
        IN  /\ (last_valid.ret = FALSE) <=> (same \/ neither)
            /\ last_valid.ret = is_valid(b, a)

\* An immovable body paired with a movable one is accepted.
C1_Witness ==
    /\ last_valid.op = "is_valid"
    /\ last_valid.a[1] # last_valid.b[1]
    /\ ~can_move[last_valid.a[1]]
    /\ can_move[last_valid.b[1]]
    /\ last_valid.ret = TRUE

\* The number of times body i occurs in the sequence of calls s.
Count(i, s) == Cardinality({k \in 1 .. Len(s) : s[k] = i})

\* C2: in an update, a pair whose contact count goes from zero to nonzero or
\* from nonzero to zero gets exactly one will_activate call on each of its
\* two bodies; a pair whose count stays zero or stays nonzero gets none; and
\* over all updates a pair's wake reports are twice its zero crossings.
C2_WakeOnZeroCrossing ==
    \A p \in tracked :
        LET u == last_update[p]
            oneZero == (u.ncols = 0 /\ u.new_ncols > 0) \/ (u.ncols > 0 /\ u.new_ncols = 0)
        IN  /\ oneZero => /\ Count(p[1], u.calls) = 1
                           /\ Count(p[2], u.calls) = 1
                           /\ Len(u.calls) = 2
            /\ ~oneZero => u.calls = <<>>
            /\ wakes[p] = 2 * crossings[p]

\* A pair that first touched (two wake reports) and then went from one contact
\* to two without any report.
C2_Witness ==
    \E p \in tracked :
        /\ last_update[p].ncols = 1
        /\ last_update[p].new_ncols = 2
        /\ last_update[p].calls = <<>>
        /\ wakes[p] = 2
        /\ crossings[p] = 1

\* C3: remove(o) of an inactive o calls will_activate on exactly the bodies
\* the bounding-volume query returns that are not o, are inactive and can
\* move; remove(o) of an active o calls it on nobody.
C3_RemoveWakesNeighbours ==
    last_remove.op = "remove" =>
        LET o == last_remove.o
        IN  \A i \in Bodies :
                (last_remove.calls[i] > 0) <=>
                    /\ ~active[o]
                    /\ i \in Interferences(aabb[o])
                    /\ i # o
                    /\ ~active[i]
                    /\ can_move[i]

\* An inactive body is removed: its sleeping movable neighbour is woken, its
\* active neighbour is not.
C3_Witness ==
    /\ last_remove.op = "remove"
    /\ ~active[last_remove.o]
    /\ \E i, j \in Bodies :
          /\ i # last_remove.o /\ j # last_remove.o
          /\ Intersects(aabb[i], aabb[last_remove.o])
          /\ ~active[i] /\ can_move[i]
          /\ last_remove.calls[i] = 1
          /\ Intersects(aabb[j], aabb[last_remove.o])
          /\ active[j] /\ can_move[j]
          /\ last_remove.calls[j] = 0


\* ------------------------------------------------------------------ the builder's claims

\* The two bodies, the contact and the policy of the fill_second_order_equation
\* call, and the constraints it left.
Rb1 == RigidBody(args.b1, args.dim)
Rb2 == RigidBody(args.b2, args.dim)
CallDepth == args.coll.depth
CallMode  == args.correction.corr_mode
FrictionSlots == args.idf .. args.idf + args.dim - 2

\* The objective of the normal constraint without its penetration bias: the
\* negated, restitution-adjusted relative velocity along the normal.
NormalVelocityTerm ==
    BouncedVelocity(
        relative_velocity(Movable(Rb1), Movable(Rb2), restitution_constraint.normal,
                          restitution_constraint.rot_axis1,
                          restitution_constraint.rot_axis2, args.dt),
        RMul(Rb1.restitution, Rb2.restitution), args.correction)

\* C4: after fill_second_order_equation the normal constraint's impulse is 0
\* when the contact's depth is negative, whatever cache[0] holds, and cache[0]
\* otherwise.
C4_WarmStartDiscardedWhenSeparating ==
    stage = "second_order" =>
        /\ RLt(CallDepth, Zero) => restitution_constraint.impulse = Zero
        /\ RGe(CallDepth, Zero) => restitution_constraint.impulse = args.cache[0]

\* A separating contact with a nonzero cached impulse starts from 0.
C4_Witness ==
    /\ stage = "second_order"
    /\ RLt(CallDepth, Zero)
    /\ args.cache[0] # Zero
    /\ restitution_constraint.impulse = Zero

\* C5 as stated: in mode VelocityAndPosition the reset's objective is
\* fp * max(depth, 0) / dt for every depth and every threshold.
C5_Original ==
    (stage = "first_order" /\ CallMode.kind = "VelocityAndPosition") =>
        restitution_constraint.objective =
            RDiv(RMul(CallMode.p, RMax(CallDepth, Zero)), args.dt)

\* C5, amended: in mode VelocityAndPosition(fv, fp, t) the threshold gates the
\* positional bias: the reset's objective is fp * max(depth, 0) / dt when
\* depth >= t and 0 when depth < t.
C5_ThresholdGatesPositionBias ==
    (stage = "first_order" /\ CallMode.kind = "VelocityAndPosition") =>
        restitution_constraint.objective =
            IF RLt(CallDepth, CallMode.t)
            THEN Zero
            ELSE RDiv(RMul(CallMode.p, RMax(CallDepth, Zero)), args.dt)

\* A penetrating contact shallower than the threshold gets no positional bias
\* in mode VelocityAndPosition.
C5_Witness ==
    /\ stage = "first_order"
    /\ CallMode.kind = "VelocityAndPosition"
    /\ RLt(Zero, CallDepth)
    /\ RLt(CallDepth, CallMode.t)
    /\ CallMode.p # Zero
    /\ restitution_constraint.objective = Zero

\* C6 as stated, its part on the objective: in mode VelocityAndPositionThresold
\* the reset's objective is 0 when depth < t and fp * depth / dt when
\* depth >= t.
C6_Original ==
    (stage = "first_order" /\ CallMode.kind = "VelocityAndPositionThresold") =>
        restitution_constraint.objective =
            IF RLt(CallDepth, CallMode.t)
            THEN Zero
            ELSE RDiv(RMul(CallMode.p, CallDepth), args.dt)

\* C6, amended: in mode VelocityAndPositionThresold(fv, fp, t) the reset sets
\* the objective to 0 when depth < t and to fp * max(depth, 0) / dt when
\* depth >= t (fp = 0.1, t = 0.01: depth 0.005 gives 0, depth 0.02 gives
\* 0.1 * 0.02 / dt); in every mode it sets the impulse to 0 and leaves every
\* other field of the constraint, and the friction constraints, as they were.
C6_ReinitResetsBiasOnly ==
    [][(stage = "second_order" /\ stage' = "first_order") =>
        /\ restitution_constraint'.impulse = Zero
        /\ CallMode.kind = "VelocityAndPositionThresold" =>
              restitution_constraint'.objective =
                  IF RLt(CallDepth, CallMode.t)
                  THEN Zero
                  ELSE RDiv(RMul(CallMode.p, RMax(CallDepth, Zero)), args.dt)
        /\ (CallMode = VelocityAndPositionThresold(Rat(1, 5), Rat(1, 10), Rat(1, 100))
              /\ CallDepth = Rat(1, 200)) =>
              restitution_constraint'.objective = Zero
        /\ (CallMode = VelocityAndPositionThresold(Rat(1, 5), Rat(1, 10), Rat(1, 100))
              /\ CallDepth = Rat(1, 50)) =>
              restitution_constraint'.objective =
                  RDiv(RMul(Rat(1, 10), Rat(1, 50)), args.dt)
        /\ \A fld \in DOMAIN restitution_constraint \ {"objective", "impulse"} :
              restitution_constraint'[fld] = restitution_constraint[fld]
        /\ friction_constraints' = friction_constraints]_vars

\* The reset of a contact of depth 0.02 under threshold 0.01, fp = 0.1 and
\* dt = 0.016: the objective is 0.1 * 0.02 / 0.016 = 0.125, the impulse 0, the
\* normal still the contact's.
C6_Witness ==
    /\ stage = "first_order"
    /\ CallMode = VelocityAndPositionThresold(Rat(1, 5), Rat(1, 10), Rat(1, 100))
    /\ CallDepth = Rat(1, 50)
    /\ args.dt = Rat(2, 125)
    /\ restitution_constraint.objective = Rat(1, 8)
    /\ restitution_constraint.impulse = Zero
    /\ restitution_constraint.normal = args.coll.normal

\* The penetration bias of the claim's three cases.
C7_Bias ==
    IF RLt(CallDepth, Zero)
    THEN RDiv(CallDepth, args.dt)
    ELSE IF CallMode.kind = "VelocityAndPositionThresold" /\ RGe(CallDepth, CallMode.t)
         THEN Zero
         ELSE RDiv(RMul(CallDepth, CallMode.v), args.dt)

\* C7 as stated: the bias is depth / dt when depth < 0, depth * fv / dt when
\* 0 <= depth < max_depth_for_vel_corr and nothing otherwise, and in mode
\* VelocityAndPositionThresold a contact with depth >= threshold gets no bias.
C7_Original ==
    stage = "second_order" =>
        /\ restitution_constraint.objective = RAdd(NormalVelocityTerm, C7_Bias)
        /\ (CallMode.kind = "VelocityAndPositionThresold" /\ RGe(CallDepth, CallMode.t)) =>
              restitution_constraint.objective = NormalVelocityTerm

\* C7, amended: the bias added to the normal constraint's objective is
\* depth / dt when depth < 0, depth * fv / dt when 0 <= depth and the mode is
\* Velocity or VelocityAndPosition or depth < threshold, and nothing otherwise;
\* in mode VelocityAndPositionThresold a contact with depth >= threshold and
\* depth >= 0 gets no bias. Depth -0.01 with dt 0.016 adds -0.625.
C7_PenetrationBias ==
    stage = "second_order" =>
        /\ restitution_constraint.objective = RAdd(NormalVelocityTerm, C7_Bias)
        /\ (CallMode.kind = "VelocityAndPositionThresold" /\ RGe(CallDepth, CallMode.t)
              /\ RGe(CallDepth, Zero)) =>
              restitution_constraint.objective = NormalVelocityTerm
        /\ (CallDepth = Rat(-1, 100) /\ args.dt = Rat(2, 125)) =>
              restitution_constraint.objective = RAdd(NormalVelocityTerm, Rat(-5, 8))

\* A contact deeper than the threshold of mode VelocityAndPositionThresold: its
\* objective is the velocity term alone.
C7_Witness ==
    /\ stage = "second_order"
    /\ CallMode.kind = "VelocityAndPositionThresold"
    /\ RLt(Zero, CallMode.t)
    /\ RLt(CallMode.t, CallDepth)
    /\ CallMode.v # Zero
    /\ restitution_constraint.objective = NormalVelocityTerm

\* C8: one call fills the normal constraint and the dimension - 1 friction
\* constraints at slots idf .. idf + dimension - 2, and no other slot; each of
\* them has friction_limit_id = idr, the normal constraint's id1 and id2 (the
\* two bodies' indices) and the product of the two friction coefficients.
C8_FrictionConstraintsLinked ==
    stage # "new" =>
        /\ restitution_constraint.normal = args.coll.normal
        /\ restitution_constraint.id1 = Rb1.index
        /\ restitution_constraint.id2 = Rb2.index
        /\ Cardinality({k \in DOMAIN friction_constraints :
                            friction_constraints[k] # StaleConstraint}) = args.dim - 1
        /\ \A k \in DOMAIN friction_constraints :
              IF k \in FrictionSlots
              THEN /\ friction_constraints[k].normal # StaleConstraint.normal
                   /\ friction_constraints[k].friction_limit_id = args.idr
                   /\ friction_constraints[k].id1 = restitution_constraint.id1
                   /\ friction_constraints[k].id2 = restitution_constraint.id2
                   /\ friction_constraints[k].friction_coeff = RMul(Rb1.friction, Rb2.friction)
              ELSE friction_constraints[k] = StaleConstraint

\* A contact in three dimensions at normal slot 1: two friction slots filled
\* and linked to slot 1, the slot before them untouched.
C8_Witness ==
    /\ stage = "second_order"
    /\ args.dim = 3
    /\ args.idr = 1
    /\ args.idf = 1
    /\ friction_constraints[0] = StaleConstraint
    /\ friction_constraints[1].friction_limit_id = 1
    /\ friction_constraints[2].friction_limit_id = 1
    /\ friction_constraints[1].normal # friction_constraints[2].normal

\* C9: every normal constraint filled has lobound 0 and hibound the numeric
\* type's maximum; every friction constraint filled has lobound 0 and
\* hibound 0.
C9_ConstraintBounds ==
    stage # "new" =>
        /\ restitution_constraint.lobound = Zero
        /\ restitution_constraint.hibound = MaxValue
        /\ \A k \in FrictionSlots :
              /\ friction_constraints[k].lobound = Zero
              /\ friction_constraints[k].hibound = Zero

\* A filled contact: the normal constraint is one-sided, its friction
\* constraint carries the placeholder bounds.
C9_Witness ==
    /\ stage = "second_order"
    /\ restitution_constraint.lobound = Zero
    /\ restitution_constraint.hibound = MaxValue
    /\ friction_constraints[args.idf].normal # StaleConstraint.normal
    /\ friction_constraints[args.idf].hibound = Zero

\* The rotation axis fill_velocity_constraint gives body 1 or 2 for a constraint
\* along the axis n.
C10_RotAxis(which, n) ==
    LET center == VScale(VAdd(args.coll.world1, args.coll.world2), Rat(1, 2))
    IN  IF which = 1
        THEN Cross(VSub(center, Rb1.center_of_mass), VNeg(n))
        ELSE Cross(VSub(center, Rb2.center_of_mass), n)

\* What a body that can move adds to the sum: inv_mass * (n . n) plus its
\* rotational term; a body that cannot move adds nothing.
C10_Term(rb, n, rot_axis) ==
    IF rb.can_move
    THEN RAdd(RMul(rb.inv_mass, Dot(n, n)), RMul(rb.inv_inertia, Dot(rot_axis, rot_axis)))
    ELSE Zero

C10_Sum(n) == RAdd(C10_Term(Rb1, n, C10_RotAxis(1, n)), C10_Term(Rb2, n, C10_RotAxis(2, n)))

\* C10: every pair the builder gets was accepted by is_valid, so one of its
\* bodies can move; inv_projected_mass is the reciprocal of the sum of the
\* movable bodies' terms alone; and when a movable body of the pair has a
\* positive inverse mass it is finite and strictly positive, for the normal
\* constraint and for the friction constraints.
C10_ProjectedMassPositive ==
    stage # "new" =>
        /\ Rb1.can_move \/ Rb2.can_move
        /\ args.b1 # args.b2
        /\ restitution_constraint.inv_projected_mass = RDiv(One, C10_Sum(args.coll.normal))
        /\ \A k \in FrictionSlots :
              friction_constraints[k].inv_projected_mass =
                  RDiv(One, C10_Sum(friction_constraints[k].normal))
        /\ ((Rb1.can_move /\ RLt(Zero, Rb1.inv_mass)) \/ (Rb2.can_move /\ RLt(Zero, Rb2.inv_mass))) =>
              /\ IsFinite(restitution_constraint.inv_projected_mass)
              /\ RLt(Zero, restitution_constraint.inv_projected_mass)
              /\ \A k \in FrictionSlots :
                    /\ IsFinite(friction_constraints[k].inv_projected_mass)
                    /\ RLt(Zero, friction_constraints[k].inv_projected_mass)

\* A body that cannot move, of nonzero inverse mass, against one that can: the
\* projected mass is positive and counts the movable body alone.
C10_Witness ==
    /\ stage = "second_order"
    /\ ~Rb1.can_move
    /\ RLt(Zero, Rb1.inv_mass)
    /\ Rb2.can_move
    /\ RLt(Zero, Rb2.inv_mass)
    /\ RLt(Zero, restitution_constraint.inv_projected_mass)
    /\ IsFinite(restitution_constraint.inv_projected_mass)
    /\ restitution_constraint.inv_projected_mass =
          RDiv(One, C10_Term(Rb2, args.coll.normal, C10_RotAxis(2, args.coll.normal)))

\* The relative velocity of the call's two bodies along the axis of a filled
\* constraint.
C11_AxisVelocity(c) ==
    relative_velocity(Movable(Rb1), Movable(Rb2), c.normal, c.rot_axis1, c.rot_axis2,
                      args.dt)

\* The friction constraints of the same call for a contact of depth 0 between
\* bodies of restitution 0.
C11_Reference ==
    fill_second_order_equation(args.dt, [args.coll EXCEPT !.depth = Zero],
        [Rb1 EXCEPT !.restitution = Zero], [Rb2 EXCEPT !.restitution = Zero],
        StaleConstraint, args.idr, [k \in 0 .. NumSlots - 1 |-> StaleConstraint],
        args.idf, args.cache, args.correction, args.dim).f

\* C11: the friction constraints fill_second_order_equation leaves do not
\* depend on the contact's depth or on the bodies' restitution. The objective
\* of the i-th one is the negated relative velocity along its axis, with no
\* restitution amplification and no penetration bias, and its impulse is
\* cache[i + 1], also when the contact is separating and the normal
\* constraint's impulse is 0. Every call leaves the friction constraints of the
\* call with depth 0 and restitution 0 and otherwise the same arguments, so two
\* calls that differ only in depth and restitution leave the same ones.
C11_FrictionIgnoresDepthAndRestitution ==
    stage # "new" =>
        /\ \A k \in FrictionSlots :
              /\ friction_constraints[k].objective =
                    RNeg(C11_AxisVelocity(friction_constraints[k]))
              /\ friction_constraints[k].impulse = args.cache[k - args.idf + 1]
        /\ friction_constraints = C11_Reference

\* A separating contact between restituting bodies that approach each other
\* along the friction axis faster than rest_eps: the normal constraint starts
\* from 0 and carries the penetration bias, the friction constraint starts
\* from its cached impulse and carries the plain negated velocity.
C11_Witness ==
    /\ stage = "second_order"
    /\ RLt(CallDepth, Zero)
    /\ RLt(Zero, RMul(Rb1.restitution, Rb2.restitution))
    /\ args.cache[0] # Zero
    /\ restitution_constraint.impulse = Zero
    /\ restitution_constraint.objective # NormalVelocityTerm
    /\ \E k \in FrictionSlots :
          /\ RLt(C11_AxisVelocity(friction_constraints[k]), RNeg(args.correction.rest_eps))
          /\ friction_constraints[k].impulse = args.cache[k - args.idf + 1]
          /\ friction_constraints[k].impulse # Zero
          /\ friction_constraints[k].objective =
                RNeg(C11_AxisVelocity(friction_constraints[k]))

====
